---------------------------- MODULE Spec2Model ----------------------------
(***************************************************************************)
(* A model of dataDownloader.py: the three provider adapters              *)
(* (AlphaVantage, YahooFinance, Binance), their processDataframe           *)
(* normalisation, the date-range selection of getDailyData and             *)
(* getIntradayData, the day-by-day intraday loop of Binance, and the      *)
(* CSVHandler write/read pair.                                             *)
(*                                                                         *)
(* A dataframe is a record                                                 *)
(*     [name |-> index label, columns |-> sequence of column names,       *)
(*      rows |-> sequence of [ts |-> instant, cell |-> [column -> value]]]*)
(* and an exception is a record [error |-> name of the exception].         *)
(*                                                                         *)
(* Time: an instant is a natural number, SlotsPerDay instants to a day;   *)
(* day 0 is the epoch, which is also what the integer 0 (the "no date"    *)
(* value of the callers) converts to in pd.to_datetime / pd.date_range.   *)
(* Calendar dates passed by the callers are day-resolution strings, so a  *)
(* label slice up to date e covers the whole of day e.                     *)
(***************************************************************************)
EXTENDS Integers, Sequences, FiniteSets, TLC

\* ------------------------------------------------------------- bounds
\* Dates range over 0..MaxDay (0 is the epoch / the "no date" value).
MaxDay == 2
\* A payload holds at most MaxRows rows.
MaxRows == 2
\* Requested periods of AlphaVantage.getIntradayData range over -MaxPeriod..MaxPeriod.
MaxPeriod == 70
\* Width of the pd.Timedelta('1d') window, in instants of the model.
SlotsPerDay == 2

\* ------------------------------------------------------------ helpers
Range(s) == {s[i] : i \in DOMAIN s}

IndexOf(s, x) == CHOOSE i \in DOMAIN s : s[i] = x

Reverse(s) == [i \in DOMAIN s |-> s[Len(s) + 1 - i]]

RECURSIVE Flatten(_)
Flatten(ss) == IF ss = <<>> THEN <<>> ELSE Head(ss) \o Flatten(Tail(ss))

\* Sequences of distinct elements of S, of length at most n.
RECURSIVE DistinctSeqs(_, _)
DistinctSeqs(S, n) ==
    IF n = 0 THEN {<<>>}
    ELSE LET shorter == DistinctSeqs(S, n - 1)
         IN  shorter \cup
             UNION {{Append(s, x) : x \in S \ Range(s)} : s \in shorter}

\* The sequences, in increasing order, of at most n elements of the set S of numbers.
RECURSIVE Ascending(_)
Ascending(T) ==
    IF T = {} THEN <<>>
    ELSE LET least == CHOOSE x \in T : \A y \in T : x <= y
         IN  <<least>> \o Ascending(T \ {least})

AscendingSeqs(S, n) == {Ascending(T) : T \in {U \in SUBSET S : Cardinality(U) <= n}}

DayOf(t) == t \div SlotsPerDay

Days == 0..MaxDay
Instants == 0..((MaxDay + 1) * SlotsPerDay - 1)
Midnights == {d * SlotsPerDay : d \in Days}

\* ----------------------------------------------------- dataframes
Err(e) == [error |-> e]
IsErr(x) == "error" \in DOMAIN x

\* pd.DataFrame(): no index label, no column, no row.
EmptyDataFrame == [name |-> "", columns |-> <<>>, rows |-> <<>>]

Canonical == <<"Open", "High", "Low", "Close", "Volume">>

\* The value a provider reports in field number k of the bar at instant t:
\* distinct fields and distinct bars carry distinct values.
FieldValue(k, t) == 100 * t + k

\* A payload with the given index label and fields, one row per instant of ts.
Payload(label, fields, ts) ==
    [name |-> label, columns |-> fields,
     rows |-> [i \in DOMAIN ts |->
                 [ts |-> ts[i],
                  cell |-> [c \in Range(fields) |->
                              FieldValue(IndexOf(fields, c), ts[i])]]]]

\* An exception raised by an earlier statement passes through the later ones.
HasColumn(df, c) == c \in Range(df.columns)

\* dataframe[::-1]
ReverseRows(df) ==
    IF IsErr(df) THEN df ELSE [df EXCEPT !.rows = Reverse(df.rows)]

\* dataframe[dst] = dataframe[src]: an existing column keeps its place, a
\* new one is appended.
AssignColumn(df, dst, src) ==
    IF IsErr(df) THEN df
    ELSE IF ~HasColumn(df, src) THEN Err("KeyError")
    ELSE LET cols == IF HasColumn(df, dst) THEN df.columns
                     ELSE Append(df.columns, dst)
         IN  [df EXCEPT !.columns = cols,
                        !.rows = [i \in DOMAIN df.rows |->
                            [df.rows[i] EXCEPT !.cell =
                                [c \in Range(cols) |->
                                    IF c = dst THEN df.rows[i].cell[src]
                                    ELSE df.rows[i].cell[c]]]]]

\* dataframe[[c1, ..., cn]]
SelectColumns(df, cols) ==
    IF IsErr(df) THEN df
    ELSE IF \E i \in DOMAIN cols : ~HasColumn(df, cols[i]) THEN Err("KeyError")
    ELSE [df EXCEPT !.columns = cols,
                    !.rows = [i \in DOMAIN df.rows |->
                        [df.rows[i] EXCEPT !.cell =
                            [c \in Range(cols) |-> df.rows[i].cell[c]]]]]

\* del dataframe[c]
DelColumn(df, c) ==
    IF IsErr(df) THEN df
    ELSE IF ~HasColumn(df, c) THEN Err("KeyError")
    ELSE SelectColumns(df, SelectSeq(df.columns, LAMBDA x : x # c))

\* dataframe.rename(columns={from[i]: to[i]}): names not present are ignored.
RenameColumns(df, from, to) ==
    IF IsErr(df) THEN df ELSE
    LET New(c) == IF c \in Range(from) THEN to[IndexOf(from, c)] ELSE c
        cols == [i \in DOMAIN df.columns |-> New(df.columns[i])]
    IN  [df EXCEPT !.columns = cols,
                   !.rows = [i \in DOMAIN df.rows |->
                       [df.rows[i] EXCEPT !.cell =
                           [c \in Range(cols) |->
                               df.rows[i].cell[df.columns[IndexOf(cols, c)]]]]]]

\* dataframe.index.names = [label]
SetIndexName(df, label) ==
    IF IsErr(df) THEN df ELSE [df EXCEPT !.name = label]

\* Insertion of a row into rows sorted by ts, after the rows with the same ts.
RECURSIVE InsertRow(_, _)
InsertRow(rows, r) ==
    IF rows = <<>> THEN <<r>>
    ELSE IF r.ts < Head(rows).ts THEN <<r>> \o rows
         ELSE <<Head(rows)>> \o InsertRow(Tail(rows), r)

RECURSIVE SortRows(_)
SortRows(rows) ==
    IF rows = <<>> THEN <<>>
    ELSE InsertRow(SortRows(SubSeq(rows, 1, Len(rows) - 1)), rows[Len(rows)])

\* dataframe.sort_index()
SortIndex(df) ==
    IF IsErr(df) THEN df ELSE [df EXCEPT !.rows = SortRows(df.rows)]

\* pd.concat(dfs) of frames with the same columns; no frame at all is a
\* ValueError ("No objects to concatenate").
Concat(dfs) ==
    IF dfs = <<>> THEN Err("ValueError")
    ELSE [name |-> dfs[1].name, columns |-> dfs[1].columns,
          rows |-> Flatten([i \in DOMAIN dfs |-> dfs[i].rows])]

IndexSeq(df) == [i \in DOMAIN df.rows |-> df.rows[i].ts]

NonDecreasing(s) == \A i \in 1..(Len(s) - 1) : s[i] <= s[i + 1]
NonIncreasing(s) == \A i \in 1..(Len(s) - 1) : s[i] >= s[i + 1]

\* ------------------------------------------------- processDataframe
AlphaVantageFields ==
    <<"open", "high", "low", "close", "adjusted_close", "volume",
      "dividend_amount", "split_coefficient">>

\* AlphaVantage.processDataframe without the copy of adjusted_close into close.
AlphaVantageProcessDataframe_rawClose(dataframe) ==
    LET reversed == ReverseRows(dataframe)
        trimmed  == DelColumn(DelColumn(DelColumn(reversed,
                        "adjusted_close"), "dividend_amount"), "split_coefficient")
    IN  RenameColumns(SetIndexName(trimmed, "Timestamp"),
                      <<"open", "high", "low", "close", "volume">>, Canonical)

AlphaVantageProcessDataframe(dataframe) ==
    LET reversed == ReverseRows(dataframe)
        adjusted == AssignColumn(reversed, "close", "adjusted_close")
        trimmed  == DelColumn(DelColumn(DelColumn(adjusted,
                        "adjusted_close"), "dividend_amount"), "split_coefficient")
    IN  RenameColumns(SetIndexName(trimmed, "Timestamp"),
                      <<"open", "high", "low", "close", "volume">>, Canonical)

\* The columns of pandas_datareader's frame, in either of the two orders the
\* Yahoo reader has delivered them in.
YahooFieldOrders ==
    {<<"Open", "High", "Low", "Close", "Adj Close", "Volume">>,
     <<"High", "Low", "Open", "Close", "Volume", "Adj Close">>}

YahooFinanceProcessDataframe(dataframe) ==
    LET adjusted == AssignColumn(dataframe, "Close", "Adj Close")
        trimmed  == DelColumn(adjusted, "Adj Close")
    IN  SelectColumns(SetIndexName(trimmed, "Timestamp"), Canonical)

klines_columns ==
    <<"Open time", "Open", "High", "Low", "Close", "Volume", "Close time",
      "Quote asset volume", "Number of trades", "Taker buy base asset volume",
      "Taker buy quote asset volume", "Ignore">>

\* Binance.processDataframe without the sort.
BinanceProcessDataframe_unsorted(dataframe) ==
    SelectColumns(dataframe, Canonical)

BinanceProcessDataframe(dataframe) ==
    SelectColumns(SortIndex(dataframe), Canonical)

Providers == {"AlphaVantage", "YahooFinance", "Binance"}

\* What a method hands back: the frame it returns or the exception it raises.
Returned(frame) == [kind |-> "returned", frame |-> frame]
Raised(e) == [kind |-> "raised", error |-> e]
NoCall == [kind |-> "none"]
Outcome(x) == IF IsErr(x) THEN Raised(x.error) ELSE Returned(x)

\* ----------------------------------------------------------- state
VARIABLES
    self,       \* the class of the adapter object
    data,       \* self.data
    ret,        \* what the last call returned or raised
    op,         \* the method called last (or running)
    args,       \* its arguments
    raw,        \* the dataframe parsed from the provider's response
    pc,         \* "idle", or the position inside Binance.getIntradayData
    dates,      \* the days of pd.date_range still to fetch
    dfs,        \* the local list dfs of Binance.getIntradayData
    requests,   \* the requests.get calls issued by the call, in order
    disk,       \* the CSV files written, by name
    saved,      \* the dataframe the last dataframeToCSV was given, by name
    loaded,     \* what the last CSVToDataframe returned or raised
    timePeriod  \* the local timePeriod of AlphaVantage.getIntradayData

vars == <<self, data, ret, op, args, raw, pc, dates, dfs, requests, disk, saved, loaded, timePeriod>>

NoArgs == [startingDate |-> 0, endingDate |-> 0, period |-> 0]
NoFiles == [n \in {} |-> <<>>]

\* ------------------------------------- processDataframe on its own
\* The frames each class's processDataframe is called on: the parsed payload
\* of the provider, rows in any order.
RawFrames(class) ==
    LET tss == DistinctSeqs(Instants, MaxRows)
    IN  CASE class = "AlphaVantage" ->
               {Payload("timestamp", AlphaVantageFields, ts) : ts \in tss}
          [] class = "YahooFinance" ->
               {Payload("Date", f, ts) : f \in YahooFieldOrders, ts \in tss}
          [] class = "Binance" ->
               {Payload("Timestamp", Tail(klines_columns), ts) : ts \in tss}

InitNormalize ==
    /\ self \in Providers
    /\ raw \in RawFrames(self)
    /\ op = "none"
    /\ ret = NoCall
    /\ data = EmptyDataFrame
    /\ args = NoArgs
    /\ pc = "idle"
    /\ dates = <<>>
    /\ dfs = <<>>
    /\ requests = <<>>
    /\ disk = NoFiles
    /\ saved = NoFiles
    /\ loaded = NoCall
    /\ timePeriod = 0

Processed(frame) ==
    /\ op = "none"
    /\ op' = "processDataframe"
    /\ ret' = Outcome(frame)
    /\ UNCHANGED <<self, data, args, raw, pc, dates, dfs, requests, disk, saved, loaded, timePeriod>>

ProcessAlphaVantage ==
    self = "AlphaVantage" /\ Processed(AlphaVantageProcessDataframe(raw))

ProcessYahooFinance ==
    self = "YahooFinance" /\ Processed(YahooFinanceProcessDataframe(raw))

ProcessBinance ==
    self = "Binance" /\ Processed(BinanceProcessDataframe(raw))

NextNormalize == ProcessAlphaVantage \/ ProcessYahooFinance \/ ProcessBinance

SpecNormalize == InitNormalize /\ [][NextNormalize]_vars

\* The field of the raw frame that Close must carry: the adjusted close where
\* the provider reports one.
CloseSource(class) ==
    CASE class = "AlphaVantage" -> "adjusted_close"
      [] class = "YahooFinance" -> "Adj Close"
      [] class = "Binance" -> "Close"

\* C1: for every provider and every valid payload, processDataframe returns a
\* frame whose columns are exactly Open, High, Low, Close, Volume in that
\* order (every row holding exactly these five cells), and Close carries the
\* provider's adjusted close where the provider reports one.
C1_CanonicalColumns ==
    op = "processDataframe" =>
        /\ ret.kind = "returned"
        /\ ret.frame.columns = Canonical
        /\ Len(ret.frame.rows) = Len(raw.rows)
        /\ \A i \in DOMAIN ret.frame.rows :
              LET r == ret.frame.rows[i]
              IN  /\ DOMAIN r.cell = Range(Canonical)
                  /\ \E j \in DOMAIN raw.rows :
                        /\ raw.rows[j].ts = r.ts
                        /\ r.cell["Close"] = raw.rows[j].cell[CloseSource(self)]
                        /\ r.cell["Open"] = raw.rows[j].cell[
                              IF self = "AlphaVantage" THEN "open" ELSE "Open"]

C1_Witness ==
    /\ op = "processDataframe"
    /\ self = "AlphaVantage"
    /\ Len(raw.rows) = MaxRows
    /\ ret.kind = "returned"

\* C2 as stated: whatever the order of the payload's rows, the rows of the
\* normalized frame are in non-decreasing timestamp order.
C2_AlwaysSorted ==
    op = "processDataframe" =>
        ret.kind = "returned" /\ NonDecreasing(IndexSeq(ret.frame))

\* C2 amended: Binance.processDataframe sorts, so its rows are in
\* non-decreasing timestamp order whatever the payload's order;
\* AlphaVantage.processDataframe reverses the payload's rows and
\* YahooFinance.processDataframe keeps them as they are, so their rows are in
\* non-decreasing order exactly when the payload is newest-first
\* (AlphaVantage) or oldest-first (YahooFinance).
C2_SortedOnlyWhereTheCodeSorts ==
    op = "processDataframe" =>
        /\ ret.kind = "returned"
        /\ self = "Binance" => NonDecreasing(IndexSeq(ret.frame))
        /\ self = "AlphaVantage" =>
              /\ IndexSeq(ret.frame) = Reverse(IndexSeq(raw))
              /\ NonDecreasing(IndexSeq(ret.frame)) <=> NonIncreasing(IndexSeq(raw))
        /\ self = "YahooFinance" =>
              /\ IndexSeq(ret.frame) = IndexSeq(raw)
              /\ NonDecreasing(IndexSeq(ret.frame)) <=> NonDecreasing(IndexSeq(raw))

C2_Witness ==
    /\ op = "processDataframe"
    /\ self = "Binance"
    /\ ~NonDecreasing(IndexSeq(raw))
    /\ ret.kind = "returned"
    /\ Len(ret.frame.rows) = MaxRows

\* ------------------------------------------------ range selection
\* The rows of df whose day lies in s..e: what .loc[s:e] with day-resolution
\* labels selects from an index in increasing order.
RowsWithin(df, s, e) ==
    [df EXCEPT !.rows =
        SelectSeq(df.rows, LAMBDA r : s <= DayOf(r.ts) /\ DayOf(r.ts) <= e)]

\* .loc[s:e] on an index in decreasing order, located by position: the rows
\* from the first one not after s down to the last one not before e.
RowsBetweenDescending(df, s, e) ==
    [df EXCEPT !.rows =
        SelectSeq(df.rows, LAMBDA r : r.ts <= s * SlotsPerDay
                                      /\ r.ts >= e * SlotsPerDay + SlotsPerDay - 1)]

\* dataframe.loc[s:e]. On an index that is not in increasing order the result
\* depends on the pandas release: the mask of the rows within the bounds, a
\* KeyError (value based slicing on a non-monotonic index), or, on a
\* decreasing index, the positional slice.
LocSlice(df, s, e) ==
    IF NonDecreasing(IndexSeq(df)) THEN {RowsWithin(df, s, e)}
    ELSE {RowsWithin(df, s, e), Err("KeyError")}
         \cup (IF NonIncreasing(IndexSeq(df))
               THEN {RowsBetweenDescending(df, s, e)} ELSE {})

\* The selection with each bound applied on its own when it is given.
RangeSelect_oneSided(df, startingDate, endingDate) ==
    LET s == startingDate
        e == IF endingDate = 0 THEN MaxDay ELSE endingDate
    IN  IF startingDate # 0 \/ endingDate # 0 THEN LocSlice(df, s, e) ELSE {df}

\* if(startingDate != 0 and endingDate != 0): data = data.loc[startingDate:endingDate]
\* The set of frames (or exceptions) the statement can produce.
RangeSelect(df, startingDate, endingDate) ==
    IF startingDate # 0 /\ endingDate # 0
    THEN LocSlice(df, startingDate, endingDate)
    ELSE {df}

\* ---------------------------------------------------- the adapters
\* The responses of the providers are those of their contract: Alpha Vantage
\* delivers its rows newest first, Yahoo oldest first, Binance the klines
\* that open within startTime..endTime (taken here in any order).
\* One requests.get (or DataReader) call and how it ended: "ok" with a body of
\* n rows, "error" (a body that is not the expected table: an error message
\* of the provider), or "exception" (the transport raised).
Request(query, status, n) == [query |-> query, status |-> status, rows |-> n]

\* The call returns its result without storing it.
Completed_notStored(normalized, selected) ==
    [data |-> data, ret |-> Outcome(selected)]

\* self.data = self.processDataframe(...); self.data = self.data.loc[...];
\* return self.data. An exception of the selection leaves the normalized
\* frame in self.data.
Completed(normalized, selected) ==
    [data |-> IF IsErr(selected) THEN normalized ELSE selected,
     ret  |-> Outcome(selected)]

\* A method is entered with arguments a and reaches its requests.get, its
\* local timePeriod (where it has one) being period by then.
Enter(class, method, a, period) ==
    /\ self = class
    /\ pc = "idle"
    /\ op' = method
    /\ args' = a
    /\ pc' = "requesting"
    /\ requests' = <<>>
    /\ raw' = EmptyDataFrame
    /\ ret' = NoCall
    /\ timePeriod' = period
    /\ UNCHANGED <<self, data, dates, dfs, disk, saved, loaded>>

\* The method class.method is waiting for the answer to its request.
Requesting(class, method) ==
    self = class /\ op = method /\ pc = "requesting"

\* The rest of a method that makes one request: the answer parsed to frame.
Leave(request, frame, done) ==
    /\ requests' = <<request>>
    /\ raw' = frame
    /\ data' = done.data
    /\ ret' = done.ret
    /\ pc' = IF op = "getIntradayData" THEN "done" ELSE "idle"
    /\ UNCHANGED <<self, op, args, dates, dfs, disk, saved, loaded, timePeriod>>

\* The request fails: the exception propagates, nothing is stored.
LeaveRaising(query, status, exception) ==
    Leave(Request(query, status, 0), EmptyDataFrame,
          [data |-> data, ret |-> Raised(exception)])

Abs(x) == IF x < 0 THEN -x ELSE x

AlphaVantagePeriods == <<1, 5, 15, 30, 60>>

\* min(periods, key=...) returning the last of the equally near elements.
RECURSIVE NearestPeriod_lastOfTies(_, _)
NearestPeriod_lastOfTies(periods, wanted) ==
    IF Len(periods) = 1 THEN periods[1]
    ELSE LET best == NearestPeriod_lastOfTies(Tail(periods), wanted)
         IN  IF Abs(periods[1] - wanted) < Abs(best - wanted)
             THEN periods[1] ELSE best

\* min(possiblePeriods, key=lambda x: abs(x - timePeriod)): the first element
\* of the list with the smallest key.
RECURSIVE NearestPeriod(_, _)
NearestPeriod(periods, wanted) ==
    IF Len(periods) = 1 THEN periods[1]
    ELSE LET best == NearestPeriod(Tail(periods), wanted)
         IN  IF Abs(periods[1] - wanted) <= Abs(best - wanted)
             THEN periods[1] ELSE best

\* The periods the callers of the model ask AlphaVantage for, in the life
\* of an adapter.
RequestedPeriods == {7, 45}

\* Lines 103-105: timePeriod = min(possiblePeriods, key=...).
RoundedPeriod(requested) == NearestPeriod(AlphaVantagePeriods, requested)

\* Lines 62-77: getDailyData up to its request.
AlphaVantageGetDailyData ==
    \E s \in Days, e \in Days :
        Enter("AlphaVantage", "getDailyData",
              [startingDate |-> s, endingDate |-> e, period |-> 0], 0)

\* Lines 91-111: getIntradayData up to its request.
AlphaVantageGetIntradayData ==
    \E s \in Days, e \in Days, requested \in RequestedPeriods :
        Enter("AlphaVantage", "getIntradayData",
              [startingDate |-> s, endingDate |-> e, period |-> requested],
              RoundedPeriod(requested))

AlphaVantageQuery ==
    IF op = "getDailyData"
    THEN [function |-> "TIME_SERIES_DAILY_ADJUSTED", interval |-> 0]
    ELSE [function |-> "TIME_SERIES_INTRADAY",
          interval |-> timePeriod]

\* Lines 79-88 and 113-122: the CSV text parsed, normalized, selected, stored.
AlphaVantageProcess(ts) ==
    LET frame == Payload("timestamp", AlphaVantageFields, ts)
        normalized == AlphaVantageProcessDataframe(frame)
    IN  \E selected \in RangeSelect(normalized, args.startingDate, args.endingDate) :
            Leave(Request(AlphaVantageQuery, "ok", Len(ts)), frame,
                  Completed(normalized, selected))

AlphaVantageDailyResponse ==
    /\ Requesting("AlphaVantage", "getDailyData")
    /\ \/ \E ts \in AscendingSeqs(Midnights, MaxRows) : AlphaVantageProcess(Reverse(ts))
       \/ LeaveRaising(AlphaVantageQuery, "exception", "ConnectionError")
       \/ LeaveRaising(AlphaVantageQuery, "error", "ValueError")

AlphaVantageIntradayResponse ==
    /\ Requesting("AlphaVantage", "getIntradayData")
    /\ \/ \E ts \in AscendingSeqs(Instants, MaxRows) : AlphaVantageProcess(Reverse(ts))
       \/ LeaveRaising(AlphaVantageQuery, "exception", "ConnectionError")
       \/ LeaveRaising(AlphaVantageQuery, "error", "ValueError")

\* Lines 187-198: getDailyData up to the DataReader call.
YahooFinanceGetDailyData ==
    \E s \in Days, e \in Days :
        Enter("YahooFinance", "getDailyData",
              [startingDate |-> s, endingDate |-> e, period |-> 0], 0)

\* Lines 198-200.
YahooFinanceDailyResponse ==
    /\ Requesting("YahooFinance", "getDailyData")
    /\ LET query == [start |-> args.startingDate, end |-> args.endingDate]
       IN  \/ \E ts \in AscendingSeqs(Midnights, MaxRows), f \in YahooFieldOrders :
                LET frame == Payload("Date", f, ts)
                    normalized == YahooFinanceProcessDataframe(frame)
                IN  Leave(Request(query, "ok", Len(ts)), frame,
                          Completed(normalized, normalized))
           \/ LeaveRaising(query, "exception", "RemoteDataError")

\* The kline of the bar at instant t: open time, then the eleven other fields.
Kline(t) == [k \in 1..12 |-> IF k = 1 THEN t ELSE FieldValue(k, t)]

\* A response body of Binance: the klines asked for, or the error object
\* Binance answers a rejected request with.
KlinesBody(ts) == [kind |-> "klines", klines |-> [i \in DOMAIN ts |-> Kline(ts[i])]]
ErrorBody == [kind |-> "error", klines |-> <<>>]

\* The parse of a body that puts up with a body that is not a table of klines:
\* it yields a frame without rows.
KlinesFrame_lenient(body) ==
    [name |-> "Timestamp", columns |-> Tail(klines_columns),
     rows |-> [i \in DOMAIN body.klines |->
                 [ts |-> body.klines[i][1],
                  cell |-> [c \in Range(Tail(klines_columns)) |->
                              body.klines[i][IndexOf(klines_columns, c)]]]]]

\* Lines 341-351 and 402-412:
\* df_klines = pd.DataFrame(response.json()); df_klines.columns = klines_columns;
\* the open time becomes the index Timestamp. pd.DataFrame of an error object
\* (scalars only) is a ValueError; pd.DataFrame([]) has no column, and giving
\* it the twelve names is a ValueError (length mismatch).
KlinesFrame(body) ==
    IF body.kind = "error" THEN Err("ValueError")
    ELSE LET width == IF body.klines = <<>> THEN 0 ELSE Len(body.klines[1])
         IN  IF width # Len(klines_columns) THEN Err("ValueError")
             ELSE [name |-> "Timestamp", columns |-> Tail(klines_columns),
                   rows |-> [i \in DOMAIN body.klines |->
                       [ts |-> body.klines[i][1],
                        cell |-> [c \in Range(Tail(klines_columns)) |->
                                    body.klines[i][IndexOf(klines_columns, c)]]]]]

\* Lines 319-340: getDailyData up to its request.
BinanceGetDailyData ==
    \E s \in Days, e \in Days :
        Enter("Binance", "getDailyData",
              [startingDate |-> s, endingDate |-> e, period |-> 0], 0)

\* Lines 341-358.
BinanceDailyResponse ==
    /\ Requesting("Binance", "getDailyData")
    /\ LET query == [interval |-> "1d", startTime |-> args.startingDate * SlotsPerDay,
                     endTime |-> args.endingDate * SlotsPerDay]
           \* daily klines open at midnight, within startTime..endTime
           offered == {t \in Midnights : query.startTime <= t /\ t <= query.endTime}
       IN  \/ \E ts \in DistinctSeqs(offered, MaxRows) :
                LET frame == KlinesFrame(KlinesBody(ts))
                    normalized == BinanceProcessDataframe(frame)
                IN  IF IsErr(normalized)
                    THEN LeaveRaising(query, "ok", normalized.error)
                    ELSE \E selected \in RangeSelect(normalized, args.startingDate,
                                                     args.endingDate) :
                            Leave(Request(query, "ok", Len(ts)), frame,
                                  Completed(normalized, selected))
           \/ LeaveRaising(query, "exception", "ConnectionError")
           \/ LET frame == KlinesFrame(ErrorBody)
              IN  IF IsErr(frame)
                  THEN LeaveRaising(query, "error", frame.error)
                  ELSE Leave(Request(query, "error", 0), frame,
                             Completed(BinanceProcessDataframe(frame),
                                       BinanceProcessDataframe(frame)))

BinancePeriods == <<5, 15, 30, 60>>

\* Every period passes the check.
PeriodAccepted_any(minutes) == TRUE

\* if minutes not in possiblePeriods: raise ValueError
PeriodAccepted(minutes) == minutes \in Range(BinancePeriods)

\* The periods the callers of the model ask Binance for.
RequestedMinutes == {7, 60}

\* pd.date_range(s, e) without its last day.
DateRange_exclusive(s, e) == [i \in 1..(e - s) |-> s + i - 1]

\* pd.date_range(startingDate, endingDate): the days s, s+1, ..., e.
DateRange(s, e) == [i \in 1..(e - s + 1) |-> s + i - 1]

\* Lines 373-388: the period check, and the start of the loop.
BinanceGetIntradayData ==
    /\ self = "Binance"
    /\ pc = "idle"
    /\ \E s \in Days, e \in Days, minutes \in RequestedMinutes :
        /\ op' = "getIntradayData"
        /\ args' = [startingDate |-> s, endingDate |-> e, period |-> minutes]
        /\ requests' = <<>>
        /\ raw' = EmptyDataFrame
        /\ dfs' = <<>>
        /\ IF PeriodAccepted(minutes)
           THEN /\ pc' = "loop"
                /\ dates' = DateRange(s, e)
                /\ ret' = NoCall
           ELSE /\ pc' = "done"
                /\ dates' = <<>>
                /\ ret' = Raised("ValueError")
    /\ UNCHANGED <<self, data, disk, saved, loaded, timePeriod>>

\* The call ends in an exception: its locals are gone, self.data is as it was.
IntradayRaises(request, exception) ==
    /\ requests' = Append(requests, request)
    /\ pc' = "done"
    /\ ret' = Raised(exception)
    /\ dates' = <<>>
    /\ dfs' = <<>>
    /\ UNCHANGED <<self, data, op, args, raw, disk, saved, loaded, timePeriod>>

\* Lines 390-414: one turn of the loop, the request of one day and its parse.
BinanceFetchDay ==
    /\ pc = "loop"
    /\ dates # <<>>
    /\ LET date == Head(dates)
           query == [interval |-> IF args.period = 60 THEN "1h" ELSE "m",
                     startTime |-> date * SlotsPerDay,
                     endTime |-> (date + 1) * SlotsPerDay - 1]
           offered == query.startTime .. query.endTime
       IN  \/ \E ts \in DistinctSeqs(offered, MaxRows) :
                LET frame == KlinesFrame(KlinesBody(ts))
                IN  IF IsErr(frame)
                    THEN IntradayRaises(Request(query, "ok", Len(ts)), frame.error)
                    ELSE /\ dfs' = Append(dfs, frame)
                         /\ dates' = Tail(dates)
                         /\ requests' = Append(requests, Request(query, "ok", Len(ts)))
                         /\ UNCHANGED <<self, data, ret, op, args, raw, pc, disk, saved, loaded, timePeriod>>
           \/ IntradayRaises(Request(query, "exception", 0), "ConnectionError")
           \/ LET frame == KlinesFrame(ErrorBody)
              IN  IF IsErr(frame)
                  THEN IntradayRaises(Request(query, "error", 0), frame.error)
                  ELSE /\ dfs' = Append(dfs, frame)
                       /\ dates' = Tail(dates)
                       /\ requests' = Append(requests, Request(query, "error", 0))
                       /\ UNCHANGED <<self, data, ret, op, args, raw, pc, disk, saved, loaded, timePeriod>>

\* Lines 416-421: the concatenation, processDataframe, the selection.
BinanceStitch ==
    /\ pc = "loop"
    /\ dates = <<>>
    /\ pc' = "done"
    /\ LET frame == Concat(dfs)
           normalized == BinanceProcessDataframe(frame)
       IN  IF IsErr(normalized)
           THEN /\ ret' = Raised(normalized.error)
                /\ UNCHANGED <<data, raw>>
           ELSE \E selected \in RangeSelect(normalized, args.startingDate,
                                            args.endingDate) :
                   LET done == Completed(normalized, selected)
                   IN  /\ data' = done.data
                       /\ ret' = done.ret
                       /\ raw' = frame
    /\ UNCHANGED <<self, op, args, dates, dfs, requests, disk, saved, loaded, timePeriod>>

\* ------------------------------------------------- the adapter's life
\* An adapter object after its constructor. The model follows it through any
\* number of getDailyData calls and then through one getIntradayData call, to
\* the end of that call.
Init ==
    /\ self \in Providers
    /\ data = EmptyDataFrame
    /\ ret = NoCall
    /\ op = "none"
    /\ args = NoArgs
    /\ raw = EmptyDataFrame
    /\ pc = "idle"
    /\ dates = <<>>
    /\ dfs = <<>>
    /\ requests = <<>>
    /\ disk = NoFiles
    /\ saved = NoFiles
    /\ loaded = NoCall
    /\ timePeriod = 0

Next ==
    \/ AlphaVantageGetDailyData
    \/ AlphaVantageDailyResponse
    \/ AlphaVantageGetIntradayData
    \/ AlphaVantageIntradayResponse
    \/ YahooFinanceGetDailyData
    \/ YahooFinanceDailyResponse
    \/ BinanceGetDailyData
    \/ BinanceDailyResponse
    \/ BinanceGetIntradayData
    \/ BinanceFetchDay
    \/ BinanceStitch

Spec == Init /\ [][Next]_vars

\* -------------------------------------------- claims on the adapters
Methods == {"getDailyData", "getIntradayData"}

\* The call made last has ended.
Ended == op \in Methods /\ pc \in {"idle", "done"}

\* The frame the last call normalized, by the class's processDataframe.
NormalizedOfCall ==
    IF self = "AlphaVantage" THEN AlphaVantageProcessDataframe(raw)
    ELSE IF self = "YahooFinance" THEN YahooFinanceProcessDataframe(raw)
    ELSE BinanceProcessDataframe(raw)

\* C3 as stated: the returned rows are exactly those within each bound that
\* is given, a bound of 0 leaving its side open.
C3_EachGivenBoundApplied ==
    (Ended /\ self \in {"AlphaVantage", "Binance"} /\ ret.kind = "returned") =>
        ret.frame.rows =
            SelectSeq(NormalizedOfCall.rows,
                LAMBDA r : /\ args.startingDate # 0 => args.startingDate <= DayOf(r.ts)
                           /\ args.endingDate # 0 => DayOf(r.ts) <= args.endingDate)

\* C3 amended: on a normalized series in non-decreasing timestamp order,
\* when both bounds are given the selection returns exactly the rows with
\* start <= day of the timestamp <= end; when either bound is 0 no selection
\* is made at all and the series is returned unchanged (the bound that is
\* given is not applied).
C3_SelectionOnlyWithBothBounds ==
    (Ended /\ self \in {"AlphaVantage", "Binance"} /\ ret.kind = "returned"
           /\ NonDecreasing(IndexSeq(NormalizedOfCall))) =>
        IF args.startingDate # 0 /\ args.endingDate # 0
        THEN /\ ret.frame.columns = NormalizedOfCall.columns
             /\ ret.frame.rows =
                    SelectSeq(NormalizedOfCall.rows,
                        LAMBDA r : /\ args.startingDate <= DayOf(r.ts)
                                   /\ DayOf(r.ts) <= args.endingDate)
        ELSE ret.frame = NormalizedOfCall

C3_Witness ==
    /\ Ended
    /\ self = "AlphaVantage"
    /\ ret.kind = "returned"
    /\ args.startingDate # 0
    /\ args.endingDate = 0
    /\ \E i \in DOMAIN ret.frame.rows : DayOf(ret.frame.rows[i].ts) < args.startingDate

\* C4 as stated: a call for a well-formed range (a start day not after the
\* end day) whose requests were all answered, one of them with zero rows,
\* returns a frame with the five canonical columns (without rows when no
\* request brought any); it does not end in an exception.
C4_EmptyAnswerIsNotAnError ==
    (/\ Ended
     /\ 1 <= args.startingDate
     /\ args.startingDate <= args.endingDate
     /\ requests # <<>>
     /\ \A i \in DOMAIN requests : requests[i].status = "ok"
     /\ \E i \in DOMAIN requests : requests[i].rows = 0) =>
        /\ ret.kind = "returned"
        /\ ret.frame.columns = Canonical
        /\ (\A i \in DOMAIN requests : requests[i].rows = 0) => ret.frame.rows = <<>>

\* C5: a Binance.getIntradayData call that returns has made exactly one
\* request per day of the range, in date order, and the rows it returns
\* are, in this order, the rows of each day's frame normalized on its own,
\* concatenated in date order, whatever the order of the rows in a day's answer.
C5_StitchedEqualsPerDay ==
    (self = "Binance" /\ op = "getIntradayData" /\ pc = "done"
                      /\ ret.kind = "returned") =>
        /\ Len(requests) = args.endingDate - args.startingDate + 1
        /\ Len(requests) >= 1
        /\ \A i \in DOMAIN requests :
              /\ requests[i].query.startTime = (args.startingDate + i - 1) * SlotsPerDay
              /\ requests[i].query.endTime =
                    (args.startingDate + i) * SlotsPerDay - 1
        /\ Len(dfs) = Len(requests)
        /\ ret.frame.columns = Canonical
        /\ ret.frame.rows =
              Flatten([i \in DOMAIN dfs |-> BinanceProcessDataframe(dfs[i]).rows])

C5_Witness ==
    /\ self = "Binance"
    /\ op = "getIntradayData"
    /\ pc = "done"
    /\ ret.kind = "returned"
    /\ Len(requests) = MaxDay
    /\ args.startingDate # 0
    /\ \E i \in DOMAIN dfs : ~NonDecreasing(IndexSeq(dfs[i]))

\* C6: in Binance.getIntradayData, once the request of a day has failed the
\* call has ended in an exception and the frames of the days fetched before
\* are gone: no call that returns a series had a failed request; and the
\* step in which a request fails leaves self.data as it was.
C6_FailedDayFailsTheCall ==
    /\ [](( /\ self = "Binance"
            /\ op = "getIntradayData"
            /\ \E i \in DOMAIN requests : requests[i].status # "ok") =>
             (pc = "done" /\ ret.kind = "raised" /\ dfs = <<>>))
    /\ [][( /\ self = "Binance"
            /\ op = "getIntradayData"
            /\ Len(requests') = Len(requests) + 1
            /\ requests'[Len(requests')].status # "ok") =>
             (data' = data /\ ret'.kind = "raised")]_vars

C6_Witness ==
    /\ self = "Binance"
    /\ op = "getIntradayData"
    /\ pc = "done"
    /\ ret.kind = "raised"
    /\ Len(requests) >= 2
    /\ requests[Len(requests)].status # "ok"
    /\ data.rows # <<>>

\* C7: a Binance.getIntradayData call with a period outside {5, 15, 30, 60}
\* ends in an exception at once: it issues no request and leaves self.data
\* as it was.
C7_UnsupportedPeriodBeforeAnyRequest ==
    /\ [](( /\ self = "Binance"
            /\ op = "getIntradayData"
            /\ args.period \notin {5, 15, 30, 60}) =>
             (pc = "done" /\ ret = Raised("ValueError") /\ requests = <<>>))
    /\ [][( /\ self = "Binance"
            /\ op' = "getIntradayData"
            /\ args'.period \notin {5, 15, 30, 60}) => data' = data]_vars

C7_Witness ==
    /\ self = "Binance"
    /\ op = "getIntradayData"
    /\ args.period \notin {5, 15, 30, 60}
    /\ ret.kind = "raised"
    /\ requests = <<>>
    /\ data.rows # <<>>

\* C10 as stated: the adapter keeps no reference to or copy of a series it
\* has returned.
C10_AdapterKeepsNothing ==
    (Ended /\ ret.kind = "returned") => data # ret.frame

\* C10 amended: every call that returns stores the series it returns in the
\* adapter's data field (the adapter and the caller hold the same series)
\* until a later call replaces it; the series returned depends only on the
\* call's own answer and arguments, not on the series stored before.
C10_AdapterKeepsTheReturnedSeries ==
    (Ended /\ ret.kind = "returned") =>
        /\ data = ret.frame
        /\ ret.frame \in
              IF self = "YahooFinance" THEN {NormalizedOfCall}
              ELSE RangeSelect(NormalizedOfCall, args.startingDate, args.endingDate)

C10_Witness ==
    /\ Ended
    /\ self = "YahooFinance"
    /\ ret.kind = "returned"
    /\ data = ret.frame
    /\ data.rows # <<>>

\* ------------------------------- the period of AlphaVantage.getIntradayData
\* A fresh AlphaVantage adapter and one getIntradayData call, asked for any
\* period of -MaxPeriod..MaxPeriod.
AlphaVantageGetIntradayDataAnyPeriod ==
    /\ op = "none"
    /\ \E requested \in (-MaxPeriod)..MaxPeriod :
        Enter("AlphaVantage", "getIntradayData",
              [startingDate |-> 0, endingDate |-> 0, period |-> requested],
              RoundedPeriod(requested))

InitPeriod == Init /\ self = "AlphaVantage"

NextPeriod == AlphaVantageGetIntradayDataAnyPeriod \/ AlphaVantageIntradayResponse

SpecPeriod == InitPeriod /\ [][NextPeriod]_vars

\* C8: the period AlphaVantage.getIntradayData uses (and sends as the
\* interval of its request) is the element of {1, 5, 15, 30, 60} nearest to
\* the requested period by absolute difference, the smaller one of two
\* equally near elements; 7 gives 5, and 3, 10, 45 give 1, 5, 30.
C8_NearestPeriodSmallerOnTies ==
    (self = "AlphaVantage" /\ op = "getIntradayData") =>
        /\ timePeriod \in {1, 5, 15, 30, 60}
        /\ \A x \in {1, 5, 15, 30, 60} :
              /\ Abs(timePeriod - args.period) <= Abs(x - args.period)
              /\ Abs(timePeriod - args.period) = Abs(x - args.period) => timePeriod <= x
        /\ args.period = 7 => timePeriod = 5
        /\ args.period = 3 => timePeriod = 1
        /\ args.period = 10 => timePeriod = 5
        /\ args.period = 45 => timePeriod = 30
        /\ \A i \in DOMAIN requests : requests[i].query.interval = timePeriod

C8_Witness ==
    /\ self = "AlphaVantage"
    /\ op = "getIntradayData"
    /\ args.period = 10
    /\ timePeriod = 5
    /\ pc = "done"
    /\ requests # <<>>

\* ------------------------------------------------------ CSVHandler
\* A CSV file is the sequence of its lines, a line the sequence of its
\* comma-separated fields; a field of the header is a name, a field of a data
\* line is the sequence of its characters.
FileNames == {"data"}

DigitChars == <<"0", "1", "2", "3", "4", "5", "6", "7", "8", "9">>

RECURSIVE Digits(_)
Digits(n) ==
    IF n < 10 THEN <<DigitChars[n + 1]>>
    ELSE Digits(n \div 10) \o <<DigitChars[(n % 10) + 1]>>

RECURSIVE Number(_)
Number(chars) ==
    IF chars = <<>> THEN 0
    ELSE 10 * Number(SubSeq(chars, 1, Len(chars) - 1))
            + (IndexOf(DigitChars, chars[Len(chars)]) - 1)

\* A cell of a frame: an int64, a float64 with one decimal, NaN, or (in a
\* frame whose values were never converted to numbers) the text of a decimal.
Int64(n) == [type |-> "int", tenths |-> 10 * n]
Float64(tenths) == [type |-> "float", tenths |-> tenths]
NaN == [type |-> "nan", tenths |-> 0]
Text(tenths) == [type |-> "str", tenths |-> tenths]

\* A to_csv that writes a float without fractional part as its digits alone.
FormatValue_general(v) ==
    CASE v.type = "nan" -> <<>>
      [] v.type = "int" -> Digits(v.tenths \div 10)
      [] v.type \in {"float", "str"} ->
            IF v.tenths % 10 = 0 THEN Digits(v.tenths \div 10)
            ELSE Digits(v.tenths \div 10) \o <<".">> \o Digits(v.tenths % 10)

\* to_csv writes an int as its digits, a float as its shortest repr (always
\* with a decimal point), NaN as the empty field and a text as it is.
FormatValue(v) ==
    CASE v.type = "nan" -> <<>>
      [] v.type = "int" -> Digits(v.tenths \div 10)
      [] v.type \in {"float", "str"} ->
            Digits(v.tenths \div 10) \o <<".">> \o Digits(v.tenths % 10)

\* to_csv writes the timestamps of an index as dates when every one of them
\* is a midnight, and as date and time otherwise.
FormatTimestamp(t, datesOnly) ==
    IF datesOnly THEN Digits(DayOf(t))
    ELSE Digits(DayOf(t)) \o <<" ">> \o Digits(t % SlotsPerDay)

\* dataframe.to_csv(path): a header of the index name and the column names,
\* then one line per row. A frame without index name gets an empty label.
ToCsv(dataframe) ==
    LET datesOnly == \A i \in DOMAIN dataframe.rows :
                         dataframe.rows[i].ts % SlotsPerDay = 0
        Line(r) == <<FormatTimestamp(r.ts, datesOnly)>> \o
                   [j \in DOMAIN dataframe.columns |->
                       FormatValue(r.cell[dataframe.columns[j]])]
    IN  <<(<<dataframe.name>> \o dataframe.columns)>> \o
        [i \in DOMAIN dataframe.rows |-> Line(dataframe.rows[i])]

\* The parser's reading of a field of the index under parse_dates.
ParseTimestamp(field) ==
    IF " " \in Range(field)
    THEN LET at == IndexOf(field, " ")
         IN  Number(SubSeq(field, 1, at - 1)) * SlotsPerDay
                 + Number(SubSeq(field, at + 1, Len(field)))
    ELSE Number(field) * SlotsPerDay

\* The parser's reading of a field of a column: the column is int64 when
\* every field of it is a run of digits, float64 otherwise; an empty field
\* is NaN.
IsInteger(field) == field # <<>> /\ Range(field) \subseteq Range(DigitChars)

ParseValue(field, integerColumn) ==
    IF field = <<>> THEN NaN
    ELSE IF "." \in Range(field)
    THEN LET at == IndexOf(field, ".")
         IN  Float64(10 * Number(SubSeq(field, 1, at - 1))
                      + Number(SubSeq(field, at + 1, Len(field))))
    ELSE IF integerColumn THEN Int64(Number(field))
    ELSE Float64(10 * Number(field))

\* pd.read_csv(path, header=0, index_col='Timestamp', parse_dates=True):
\* the first line names the columns, the column Timestamp becomes the index
\* (ValueError without such a column) and its fields are read as timestamps.
ReadCsv(text) ==
    LET header == text[1]
    IN  IF "Timestamp" \notin Range(header) THEN Err("ValueError")
        ELSE
          LET at == IndexOf(header, "Timestamp")
              others == SelectSeq([j \in DOMAIN header |-> j], LAMBDA j : j # at)
              lines == Tail(text)
              integerColumn(j) ==
                  lines # <<>> /\ \A i \in DOMAIN lines : IsInteger(lines[i][j])
          IN  [name |-> "Timestamp",
               columns |-> [k \in DOMAIN others |-> header[others[k]]],
               rows |-> [i \in DOMAIN lines |->
                   [ts |-> ParseTimestamp(lines[i][at]),
                    cell |-> [c \in {header[j] : j \in Range(others)} |->
                                LET j == IndexOf(header, c)
                                IN  ParseValue(lines[i][j], integerColumn(j))]]]]

\* Lines 253-266.
CSVToDataframe(name) == ReadCsv(disk[name])

\* The series handed to dataframeToCSV: canonical frames, rows in timestamp
\* order, with prices that are floats with or without a fractional part,
\* volumes that are floats or integers, and possibly a missing close.
Styles == {"fraction", "whole", "integer volume", "missing"}

Series(ts, style) ==
    [name |-> "Timestamp", columns |-> Canonical,
     rows |-> [i \in DOMAIN ts |->
        [ts |-> ts[i],
         cell |-> [c \in Range(Canonical) |->
            LET v == FieldValue(IndexOf(Canonical, c), ts[i])
            IN  CASE style = "fraction" -> Float64(10 * v + 5)
                  [] style = "whole" -> Float64(10 * v)
                  [] style = "integer volume" ->
                        IF c = "Volume" THEN Int64(v) ELSE Float64(10 * v + 5)
                  [] style = "missing" ->
                        IF c = "Close" /\ i = 1 THEN NaN ELSE Float64(10 * v + 5)
                  [] style = "text" -> Text(10 * v + 5)]]]]

CanonicalSeries ==
    {Series(ts, style) : ts \in AscendingSeqs(Instants, MaxRows), style \in Styles}

\* Frames that are no canonical series: pd.DataFrame(), and frames of the
\* canonical shape whose cells are text.
OtherFrames ==
    {EmptyDataFrame} \cup {Series(ts, "text") : ts \in AscendingSeqs(Instants, 1)}

\* Lines 239-250: the file is written (over the one of the same name).
DataframeToCSV ==
    \E name \in FileNames, dataframe \in CanonicalSeries \cup OtherFrames :
        /\ op' = "dataframeToCSV"
        /\ disk' = [n \in DOMAIN disk \cup {name} |->
                       IF n = name THEN ToCsv(dataframe) ELSE disk[n]]
        /\ saved' = [n \in DOMAIN saved \cup {name} |->
                       IF n = name THEN dataframe ELSE saved[n]]
        /\ loaded' = NoCall
        /\ UNCHANGED <<self, data, ret, args, raw, pc, dates, dfs, requests, timePeriod>>

\* Lines 253-266: the file is read; without the file, FileNotFoundError.
CSVToDataframeCall ==
    \E name \in FileNames :
        /\ op' = "CSVToDataframe"
        /\ loaded' = [name |-> name] @@
                     (IF name \in DOMAIN disk THEN Outcome(CSVToDataframe(name))
                      ELSE Raised("FileNotFoundError"))
        /\ UNCHANGED <<self, data, ret, args, raw, pc, dates, dfs, requests, disk,
                       saved, timePeriod>>

InitCSV ==
    /\ self = "CSVHandler"
    /\ data = EmptyDataFrame
    /\ ret = NoCall
    /\ op = "none"
    /\ args = NoArgs
    /\ raw = EmptyDataFrame
    /\ pc = "idle"
    /\ dates = <<>>
    /\ dfs = <<>>
    /\ requests = <<>>
    /\ disk = NoFiles
    /\ saved = NoFiles
    /\ loaded = NoCall
    /\ timePeriod = 0

NextCSV == DataframeToCSV \/ CSVToDataframeCall

SpecCSV == InitCSV /\ [][NextCSV]_vars

=============================================================================
